---- MODULE Spec2Model ----
(***************************************************************************)
(* Model of pages/2_Custom_Scenarios.py: the prompt construction block,    *)
(* the five generate_scenario_*_wrapper adapters, the provider dispatch    *)
(* block and the session values they read and write.                       *)
(*                                                                         *)
(* Text is a sequence of tokens; the token NL is the newline character, so *)
(* '\n'.join and "the lines of a text" are computed, not assumed.          *)
(***************************************************************************)
EXTENDS Integers, Sequences, FiniteSets, TLC

\* ------------------------------------------------------------------ bounds
\* Submissions (clicks on Generate) explored in one session.
MaxSubmissions == 2
\* Longest technique selection explored.
MaxTechniques == 2
\* Longest message list handed directly to the Azure adapter.
MaxMessages == 2

\* ------------------------------------------------------------ text helpers
NL == "\n"

RECURSIVE Flatten(_)
\* Concatenation of a sequence of texts (str.format's assembling of pieces).
Flatten(ss) ==
    IF ss = <<>> THEN <<>> ELSE Head(ss) \o Flatten(Tail(ss))

RECURSIVE JoinReversed(_, _)
JoinReversed(sep, names) ==
    IF names = <<>> THEN <<>>
    ELSE IF Len(names) = 1 THEN <<names[1]>>
    ELSE JoinReversed(sep, Tail(names)) \o <<sep, Head(names)>>

RECURSIVE Join(_, _)
\* sep.join(names): the names in order with sep between neighbours.
Join(sep, names) ==
    IF names = <<>> THEN <<>>
    ELSE IF Len(names) = 1 THEN <<names[1]>>
    ELSE <<Head(names), sep>> \o Join(sep, Tail(names))

RECURSIVE SplitLines(_, _)
\* text.split('\n'): cur is the line being read.
SplitLines(text, cur) ==
    IF text = <<>> THEN <<cur>>
    ELSE IF Head(text) = NL THEN <<cur>> \o SplitLines(Tail(text), <<>>)
    ELSE SplitLines(Tail(text), Append(cur, Head(text)))

Lines(text) == SplitLines(text, <<>>)

Contains(text, part) ==
    \E i \in 0..(Len(text) - Len(part)) :
        \A j \in 1..Len(part) : text[i + j] = part[j]

\* ------------------------------------------------------ prompt construction
TemplateInfoAlways(selected_template) ==
    <<"This is a '", selected_template, "' scenario.">>

\* template_info = f"This is a '{selected_template}' scenario." if selected_template else ""
TemplateInfo(selected_template) ==
    IF selected_template # ""
    THEN <<"This is a '", selected_template, "' scenario.">>
    ELSE <<>>

system_template ==
    <<"You are a cybersecurity expert. Your task is to produce a comprehensive incident response testing scenario based on the information provided.">>

TechniquesHeader ==
    "The threat actor is known to use the following ATT&CK techniques:"

\* human_template: literal pieces are one-element texts, a placeholder is the
\* record naming its variable.
Lit(s) == [lit |-> s, var |-> ""]
Var(v) == [lit |-> "", var |-> v]

human_template ==
    << Lit(NL),
       Lit("**Background information:**"), Lit(NL),
       Lit("The company operates in the '"), Var("industry"),
       Lit("' industry and is of size '"), Var("company_size"), Lit("'."), Lit(NL),
       Lit(NL),
       Lit("**Threat actor information:**"), Lit(NL),
       Var("template_info"), Lit(NL),
       Lit(TechniquesHeader), Lit(NL),
       Var("selected_techniques_string"), Lit(NL),
       Lit(NL),
       Lit("**Your task:**"), Lit(NL),
       Lit("Create a custom incident response testing scenario based on the information provided."), Lit(NL),
       Lit(NL),
       Lit("Your response should be well structured and formatted using Markdown."), Lit(NL) >>

\* chat_prompt.format_prompt(**values): every placeholder replaced by its value.
FormatPrompt(template, values) ==
    Flatten([i \in 1..Len(template) |->
                IF template[i].var = "" THEN <<template[i].lit>>
                ELSE values[template[i].var]])

SelectedTechniquesStringReversed(selected_techniques) ==
    JoinReversed(NL, selected_techniques)

\* selected_techniques_string = '\n'.join(selected_techniques)
SelectedTechniquesString(selected_techniques) ==
    Join(NL, selected_techniques)

UserText(ind, size, selected_template, selected_techniques) ==
    FormatPrompt(human_template,
        [industry |-> <<ind>>,
         company_size |-> <<size>>,
         template_info |-> TemplateInfo(selected_template),
         selected_techniques_string |-> SelectedTechniquesString(selected_techniques)])

\* The script's name `messages` is bound only when a technique is selected.
Unbound == <<>>

\* .to_messages(): a SystemMessage and a HumanMessage, each with type and content.
Render(ind, size, selected_template, selected_techniques) ==
    IF Len(selected_techniques) > 0
    THEN << [type |-> "system", content |-> system_template],
            [type |-> "human",
             content |-> UserText(ind, size, selected_template, selected_techniques)] >>
    ELSE Unbound


\* ------------------------------------------------------------ configuration
\* A value that is not there: a missing key of st.session_state or os.environ,
\* Python's None.
Absent == "<absent>"

ConfigValues == {Absent, "", "v1"}

Providers ==
    {"OpenAI API", "Azure OpenAI Service", "Google AI API", "Mistral API", "Ollama"}

\* A provider identity none of the dispatch conditions names.
UnknownProvider == "Unknown Provider"

ProviderInputs == Providers \cup {UnknownProvider}

\* The session keys the page copies to os.environ, with the variable each goes to.
EnvOf ==
    [AZURE_OPENAI_API_KEY |-> "AZURE_OPENAI_API_KEY",
     AZURE_OPENAI_ENDPOINT |-> "AZURE_OPENAI_ENDPOINT",
     azure_deployment |-> "AZURE_DEPLOYMENT",
     openai_api_version |-> "OPENAI_API_VERSION",
     GOOGLE_API_KEY |-> "GOOGLE_API_KEY",
     google_model |-> "GOOGLE_MODEL",
     MISTRAL_API_KEY |-> "MISTRAL_API_KEY",
     mistral_model |-> "MISTRAL_MODEL",
     ollama_model |-> "OLLAMA_MODEL"]

CopiedKeys == DOMAIN EnvOf

EnvVars == {EnvOf[k] : k \in CopiedKeys}

\* The session keys the OpenAI branch reads directly.
OpenAIKeys == {"openai_api_key", "model_name"}

SessionKeys == CopiedKeys \cup OpenAIKeys

\* The session keys the branch of a provider depends on.
KeysOf(p) ==
    CASE p = "Azure OpenAI Service" ->
            {"AZURE_OPENAI_API_KEY", "AZURE_OPENAI_ENDPOINT", "azure_deployment",
             "openai_api_version"}
      [] p = "Google AI API" -> {"GOOGLE_API_KEY", "google_model"}
      [] p = "Mistral API" -> {"MISTRAL_API_KEY", "mistral_model"}
      [] p = "Ollama" -> {"ollama_model"}
      [] OTHER -> OpenAIKeys

\* The variables the process was started with: none of EnvVars is set.
LaunchEnviron == [v \in EnvVars |-> Absent]

\* if "<key>" in st.session_state: os.environ["<VAR>"] = st.session_state["<key>"]
CopyToEnviron(ss, env) ==
    [v \in EnvVars |->
        LET k == CHOOSE c \in CopiedKeys : EnvOf[c] = v
        IN  IF ss[k] # Absent THEN ss[k] ELSE env[v]]

\* ------------------------------------------------------------- tracing hook
\* client = Client(api_key=api_key) if api_key else None, then overwritten:
\* a Client when LANGCHAIN_API_KEY is among the secrets, None otherwise.
ClientAtStartup(langsmith_env_key, langchain_secret) ==
    IF langchain_secret THEN "Client" ELSE "None"

\* ------------------------------------------------------------------ display
Info(s) == [kind |-> "info", text |-> <<s>>]
Error(t) == [kind |-> "error", text |-> t]
Markdown(t) == [kind |-> "markdown", text |-> t]

\* except Exception as e: st.error("An error occurred: " + str(e))
OuterError(etext) == Error(<<"An error occurred: ">> \o etext)

\* st.error("An error occurred while generating the scenario: " + str(e))
AdapterError(etext) ==
    Error(<<"An error occurred while generating the scenario: ">> \o etext)

KeyErrorText(key) == <<"'", key, "'">>
NameErrorText == <<"name 'messages' is not defined">>

\* ------------------------------------------------------------ dispatch block
\* What a branch of the dispatch block does up to the adapter call: the
\* messages shown, whether the else branch (the adapter call) is reached, and
\* the text of the exception raised on the way, if any.
Stop(shown) == [shown |-> shown, go |-> FALSE, raised |-> <<>>]
Go(shown) == [shown |-> shown, go |-> TRUE, raised |-> <<>>]
Raise(shown, etext) == [shown |-> shown, go |-> FALSE, raised |-> etext]

IndustryInfo == Info("Please select your company's industry to continue.")
SizeInfo == Info("Please select your company's size to continue.")
ModelInfo == Info("Please select a model to continue.")

IndustryElse(shown, ind, size) ==
    IF ind = "" THEN [shown |-> Append(shown, Info("Please select your company's industry to continue.")),
                      go |-> FALSE, raised |-> <<>>]
    ELSE [shown |-> shown, go |-> TRUE, raised |-> <<>>]

\* elif not industry: ... elif not company_size: ... else: <adapter call>
IndustrySizeElse(shown, ind, size) ==
    IF ind = "" THEN Stop(Append(shown, IndustryInfo))
    ELSE IF size = "" THEN Stop(Append(shown, SizeInfo))
    ELSE Go(shown)

\* if not A: info   (an independent if, the chain below it still runs)
IfNot(value, info) == IF value = "" \/ value = Absent THEN <<info>> ELSE <<>>

AzureKeyInfo == Info("Please add your Azure OpenAI Service API key to continue.")
AzureEndpointInfo == Info("Please add your Azure OpenAI Service API endpoint to continue.")
AzureDeploymentInfo == Info("Please add the name of your Azure OpenAI Service Deployment to continue.")

DispatchAzure(env, ind, size) ==
    IF env["AZURE_OPENAI_API_KEY"] = Absent
    THEN Raise(<<>>, KeyErrorText("AZURE_OPENAI_API_KEY"))
    ELSE LET s1 == IfNot(env["AZURE_OPENAI_API_KEY"], AzureKeyInfo) IN
    IF env["AZURE_OPENAI_ENDPOINT"] = Absent
    THEN Raise(s1, KeyErrorText("AZURE_OPENAI_ENDPOINT"))
    ELSE LET s2 == s1 \o IfNot(env["AZURE_OPENAI_ENDPOINT"], AzureEndpointInfo) IN
    IF env["AZURE_DEPLOYMENT"] = Absent
    THEN Raise(s2, KeyErrorText("AZURE_DEPLOYMENT"))
    ELSE IF env["AZURE_DEPLOYMENT"] = ""
    THEN Stop(Append(s2, AzureDeploymentInfo))
    ELSE IndustrySizeElse(s2, ind, size)

GoogleKeyInfo == Info("Please add your Google AI API key to continue.")

DispatchGoogle(env, ind, size) ==
    IF env["GOOGLE_API_KEY"] = Absent
    THEN Raise(<<>>, KeyErrorText("GOOGLE_API_KEY"))
    ELSE LET s1 == IfNot(env["GOOGLE_API_KEY"], GoogleKeyInfo) IN
    IF env["GOOGLE_MODEL"] = Absent
    THEN Raise(s1, KeyErrorText("GOOGLE_MODEL"))
    ELSE IF env["GOOGLE_MODEL"] = ""
    THEN Stop(Append(s1, ModelInfo))
    ELSE IndustrySizeElse(s1, ind, size)

MistralKeyInfo == Info("Please add your Mistral API key to continue.")

DispatchMistral(env, ind, size) ==
    IF env["MISTRAL_API_KEY"] = Absent
    THEN Raise(<<>>, KeyErrorText("MISTRAL_API_KEY"))
    ELSE LET s1 == IfNot(env["MISTRAL_API_KEY"], MistralKeyInfo) IN
    IF env["MISTRAL_MODEL"] = Absent
    THEN Raise(s1, KeyErrorText("MISTRAL_MODEL"))
    ELSE IF env["MISTRAL_MODEL"] = ""
    THEN Stop(Append(s1, ModelInfo))
    ELSE IndustrySizeElse(s1, ind, size)

DispatchOllama(env, ind, size) ==
    IF env["OLLAMA_MODEL"] = Absent
    THEN Raise(<<>>, KeyErrorText("OLLAMA_MODEL"))
    ELSE IF env["OLLAMA_MODEL"] = ""
    THEN Stop(<<ModelInfo>>)
    ELSE IndustrySizeElse(<<>>, ind, size)

OpenAIKeyInfo == Info("Please add your OpenAI API key to continue.")

\* st.session_state.get(...) gives None for a missing key: no KeyError here.
DispatchOpenAI(ss, ind, size) ==
    LET s1 == IfNot(ss["openai_api_key"], OpenAIKeyInfo) IN
    IF ss["model_name"] = "" \/ ss["model_name"] = Absent
    THEN Stop(Append(s1, ModelInfo))
    ELSE IndustrySizeElse(s1, ind, size)

\* The tag of the adapter a provider identity selects (the tags are the
\* wrappers' tracing tags): if / elif / elif / elif / else.
AdapterOf(p) ==
    IF p = "Azure OpenAI Service" THEN "azure"
    ELSE IF p = "Google AI API" THEN "google"
    ELSE IF p = "Mistral API" THEN "mistral"
    ELSE IF p = "Ollama" THEN "ollama"
    ELSE "openai"

Dispatch(p, ss, env, ind, size) ==
    IF p = "Azure OpenAI Service" THEN DispatchAzure(env, ind, size)
    ELSE IF p = "Google AI API" THEN DispatchGoogle(env, ind, size)
    ELSE IF p = "Mistral API" THEN DispatchMistral(env, ind, size)
    ELSE IF p = "Ollama" THEN DispatchOllama(env, ind, size)
    ELSE DispatchOpenAI(ss, ind, size)

\* Whether evaluating the arguments of the adapter call raises NameError: every
\* wrapper but Ollama's is passed `messages`.
CallSiteNeedsMessages(tag) == tag # "ollama"


\* --------------------------------------------------------- adapter helpers
\* if client is not None: <traced variant> else: <untraced variant>
TracedAlways(c) == TRUE

Traced(c) == c # "None"

\* run_tree: the run the tracing decorator opens before the body starts;
\* 0 stands for "no run".
RunTreeAtEntry(c, fresh) == IF Traced(c) THEN fresh ELSE 0

\* The try body's st.session_state['run_id'] = str(run_tree.id)
RunIdOnSuccess(c, tree, old) == IF Traced(c) THEN tree ELSE old

RunIdOnFailureKept(c, tree, old) == old

\* The except branch's st.session_state['run_id'] = str(run_tree.id)
RunIdOnFailure(c, tree, old) == IF Traced(c) THEN tree ELSE old

\* Where control goes after the except branch: return None.
AfterExceptRetry == "calling"

AfterExcept == "returned"

\* hasattr(message, 'role') and hasattr(message, 'content'), or the same with 'type'
HasRoleShape(m) == "role" \in DOMAIN m /\ "content" \in DOMAIN m
HasTypeShape(m) == "type" \in DOMAIN m /\ "content" \in DOMAIN m
Supported(m) == HasRoleShape(m) \/ HasTypeShape(m)

AzureRoleKept(role) == role

\* role = 'user' if role == 'human'
AzureRole(role) == IF role = "human" THEN "user" ELSE role

\* One round of the conversion loop for an element that does not raise.
FormatMessage(m) ==
    IF HasRoleShape(m) THEN [role |-> AzureRole(m.role), content |-> m.content]
    ELSE IF HasTypeShape(m) THEN [role |-> AzureRole(m.type), content |-> m.content]
    ELSE m

FormatMessages(msgs) == [i \in 1..Len(msgs) |-> FormatMessage(msgs[i])]

ConversionRaisesOnFirstOnly(msgs) == ~Supported(msgs[1])

\* Whether the conversion loop reaches its else branch: raise ValueError(...)
ConversionRaises(msgs) == \E i \in 1..Len(msgs) : ~Supported(msgs[i])

\* raise ValueError(f"Unsupported message format: {message}")
UnsupportedText == <<"Unsupported message format: ", "<message>">>

\* Exceptions are a class and the text str(e) gives.
Exc(class, text) == [class |-> class, text |-> text]
NoException == Exc("", <<>>)

ClientErrors == {Exc("OpenAIError", <<"client could not be constructed">>)}
BackendErrors ==
    {Exc("AuthenticationError", <<"401 Unauthorized">>),
     Exc("APIConnectionError", <<"Connection error">>)}
UnsupportedError == Exc("ValueError", UnsupportedText)
MessagesNameError == Exc("NameError", NameErrorText)

AdapterCatchesValueError(class) == class = "ValueError"

\* except Exception: every class raised in the try body derives from Exception.
AdapterCatches(class) ==
    class \in {"ValueError", "NameError", "OpenAIError", "AuthenticationError",
               "APIConnectionError"}

\* What a backend call can give: a response, a response the text cannot be
\* taken from (no choices / no generations), or an exception.
BackendOutcomes(tag) ==
    IF tag \in {"azure", "openai"} THEN {"ok", "malformed", "error"}
    ELSE {"ok", "error"}

ScenarioText(n) == <<"scenario ", ToString(n)>>

NoKeyInfo ==
    Info("No LangChain API key has been set. This run will not be logged to LangSmith.")

\* st.session_state.get(key): None for a key the session does not hold.
SessionGet(ss, key) == IF key \in DOMAIN ss THEN ss[key] ELSE Absent

\* A value together with the place it was read from.
From(source, value) == [source |-> source, value |-> value]

\* The fields the validation chain of a branch checks, named by the session
\* key that configures each, with the place each check reads: os.environ[...]
\* in the Azure, Google, Mistral and Ollama branches, st.session_state.get(...)
\* in the last branch.
Validated(tag, ss, env) ==
    CASE tag = "azure" ->
            [k \in {"AZURE_OPENAI_API_KEY", "AZURE_OPENAI_ENDPOINT", "azure_deployment"}
                |-> From("environ", env[EnvOf[k]])]
      [] tag = "google" ->
            [k \in {"GOOGLE_API_KEY", "google_model"} |-> From("environ", env[EnvOf[k]])]
      [] tag = "mistral" ->
            [k \in {"MISTRAL_API_KEY", "mistral_model"} |-> From("environ", env[EnvOf[k]])]
      [] tag = "ollama" -> [k \in {"ollama_model"} |-> From("environ", env[EnvOf[k]])]
      [] OTHER -> [k \in OpenAIKeys |-> From("session_state", SessionGet(ss, k))]

\* The configuration values a branch passes to its wrapper, named by the field
\* each parameter is for: the Google and Mistral branches pass
\* st.session_state.get('google_api_key') / .get('mistral_api_key') and the
\* model from os.getenv, the Ollama branch the model from os.getenv, the last
\* branch the two values it validated; the Azure branch passes none.
CallParameters(tag, ss, env) ==
    CASE tag = "azure" -> [k \in {} |-> From("", Absent)]
      [] tag = "google" ->
            [k \in {"GOOGLE_API_KEY", "google_model"} |->
                IF k = "GOOGLE_API_KEY"
                THEN From("session_state", SessionGet(ss, "google_api_key"))
                ELSE From("environ", env[EnvOf[k]])]
      [] tag = "mistral" ->
            [k \in {"MISTRAL_API_KEY", "mistral_model"} |->
                IF k = "MISTRAL_API_KEY"
                THEN From("session_state", SessionGet(ss, "mistral_api_key"))
                ELSE From("environ", env[EnvOf[k]])]
      [] tag = "ollama" -> [k \in {"ollama_model"} |-> From("environ", env[EnvOf[k]])]
      [] OTHER -> [k \in OpenAIKeys |-> From("session_state", SessionGet(ss, k))]

\* What the dispatch block validated and passed when it called the wrapper.
CallSite(tag, ss, env) ==
    [validated |-> Validated(tag, ss, env), params |-> CallParameters(tag, ss, env)]

\* No wrapper was called by the dispatch block in this script run.
NoCallSite ==
    [validated |-> [k \in {} |-> From("", Absent)],
     params |-> [k \in {} |-> From("", Absent)]]

\* The place an adapter takes each value it uses from: os.getenv(...) inside
\* the Azure, Google, Mistral and Ollama adapters (their parameters are
\* overwritten on entry); the OpenAI adapter keeps its openai_api_key
\* parameter and reads model_name from st.session_state again.
ReadFrom(tag) ==
    CASE tag = "azure" -> [k \in KeysOf("Azure OpenAI Service") |-> "environ"]
      [] tag = "google" -> [k \in KeysOf("Google AI API") |-> "environ"]
      [] tag = "mistral" -> [k \in KeysOf("Mistral API") |-> "environ"]
      [] tag = "ollama" -> [k \in KeysOf("Ollama") |-> "environ"]
      [] OTHER -> [k \in OpenAIKeys |->
                    IF k = "openai_api_key" THEN "parameter" ELSE "session_state"]

\* The adapters with the os.getenv lines left out: each uses the values it
\* was passed.
AdapterReadsParameters(tag, ss, env) ==
    LET passed == CallParameters(tag, ss, env)
    IN  CASE tag = "azure" -> [k \in KeysOf("Azure OpenAI Service") |-> env[EnvOf[k]]]
          [] OTHER -> [k \in DOMAIN passed |-> passed[k].value]

\* The values an adapter builds its client and its call with, named by the
\* session key that configures each: os.getenv(...) inside the Azure, Google,
\* Mistral and Ollama adapters, the openai_api_key parameter and
\* st.session_state["model_name"] inside the OpenAI adapter.
AdapterReads(tag, ss, env) ==
    CASE tag = "azure" -> [k \in KeysOf("Azure OpenAI Service") |-> env[EnvOf[k]]]
      [] tag = "google" -> [k \in KeysOf("Google AI API") |-> env[EnvOf[k]]]
      [] tag = "mistral" -> [k \in KeysOf("Mistral API") |-> env[EnvOf[k]]]
      [] tag = "ollama" -> [k \in KeysOf("Ollama") |-> env[EnvOf[k]]]
      [] OTHER -> [k \in OpenAIKeys |-> ss[k]]

\* No adapter has read its values in this script run.
NoArgs == [k \in {} |-> Absent]

\* ----------------------------------------------------------------- feedback
\* st.session_state.feedback is not set.
NoFeedback == [run_id |-> 0, score |-> -1]

\* score = 1 for thumbs up, score = 0 for thumbs down.
ScoreOf(click) == IF click = "up" THEN 1 ELSE 0

Clicks == {"none", "up", "down"}

RateInfo == Markdown(<<"Rate the scenario to help improve this tool.">>)
FeedbackSuccess == [kind |-> "success", text |-> <<"Feedback submitted. Thank you.">>]
FeedbackWarning ==
    [kind |-> "warning", text |-> <<"No run ID found. Please generate a scenario first.">>]
FeedbackError ==
    Error(<<"An error occurred while creating feedback: ", "could not reach LangSmith">>)

\* if st.session_state.get('custom_scenario_generated', False) and client is not None:
ButtonsDrawn(generated, c) == generated /\ c # "None"

\* What a click on a feedback button leaves in the placeholder and in
\* st.session_state.feedback; created says whether client.create_feedback
\* returned (TRUE) or raised (FALSE).
FeedbackClick(click, rid, created, old) ==
    IF click = "none" THEN [placeholder |-> <<>>, feedback |-> old]
    ELSE IF rid = 0 THEN [placeholder |-> <<FeedbackWarning>>, feedback |-> old]
    ELSE IF ~created THEN [placeholder |-> <<FeedbackError>>, feedback |-> old]
    ELSE [placeholder |-> <<FeedbackSuccess>>,
          feedback |-> [run_id |-> rid, score |-> ScoreOf(click)]]

\* ------------------------------------------------------------------- inputs
Industries == {"", "Finance"}
CompanySizes == {"", "Large"}
TemplateLabels == {"", "Phishing Attack"}
TechniqueNames ==
    {"User Execution (T1204)", "Input Capture (T1056)", "Data Staged (T1074)"}
\* The techniques the sessions explored under Spec choose among.
PageTechniques == {"User Execution (T1204)", "Input Capture (T1056)"}

\* The multiselect's value: display names, each at most once, in selection order.
Selections(names, n) ==
    UNION {{s \in [1..k -> names] : \A i, j \in 1..k : i # j => s[i] # s[j]} : k \in 0..n}

\* The configuration of a session that has set up provider p on the home page:
\* the keys of p hold any value, the keys of the other providers are not set.
SessionConfigs(p) ==
    {[k \in SessionKeys |-> IF k \in KeysOf(p) THEN own[k] ELSE Absent] :
        own \in [KeysOf(p) -> ConfigValues]}

\* -------------------------------------------------------------------- state
VARIABLES
    langsmith_api_key,          \* whether LANGSMITH_API_KEY is in the environment
    langchain_secret,           \* whether LANGCHAIN_API_KEY is among st.secrets
    client,                     \* "Client" or "None"
    session_state,              \* the configuration keys of st.session_state
    environ,                    \* os.environ restricted to EnvVars
    model_provider, industry, company_size,
    selected_template, selected_techniques,
    messages,                   \* the script's `messages`, or Unbound
    run_id,                     \* st.session_state['run_id'], 0 when absent
    custom_scenario_generated,
    custom_scenario_text,       \* number of the submission whose text it is, 0 when absent
    last_scenario, last_scenario_text,
    pc,                         \* "idle", "adapter", "calling", "returned"
    caller,                     \* "page" (the dispatch block) or "direct"
    adapter,                    \* tag of the adapter entered in this run, "" if none
    run_tree,                   \* the traced variant's run_tree.id, 0 if none
    formatted_messages,         \* the Azure adapter's converted messages
    llm,                        \* whether the adapter's client has been constructed
    raised,                     \* the exception raised inside the adapter in this run
    response,                   \* "None", "ok" or "malformed"
    display,                    \* what this script run has shown, in order
    nsub,                       \* submissions so far
    adapter_calls, backend_calls,   \* calls made by the current submission
    llm_args,                   \* the values the adapter builds its client and call with
    buttons,                    \* whether the last script run drew the feedback buttons
    feedback,                   \* st.session_state.feedback: the run rated and the score
    call_site,                  \* what the dispatch block validated and passed to the wrapper
    last_run                    \* the run the latest adapter invocation opened, 0 if none

config == <<langsmith_api_key, langchain_secret, client>>
\* What the home page has stored in the session before this page runs.
settings == <<session_state, model_provider, industry, company_size>>
inputs == <<settings, environ, selected_template, selected_techniques, messages>>
scenario == <<custom_scenario_generated, custom_scenario_text,
              last_scenario, last_scenario_text>>
vars == <<config, inputs, scenario, run_id, pc, caller, adapter, run_tree,
          formatted_messages, llm, raised, response, display, nsub, adapter_calls,
          backend_calls, llm_args, buttons, feedback, last_run, call_site>>

Init ==
    /\ langsmith_api_key = FALSE
    /\ langchain_secret \in BOOLEAN
    /\ client = ClientAtStartup(langsmith_api_key, langchain_secret)
    /\ model_provider \in ProviderInputs
    /\ session_state \in SessionConfigs(model_provider)
    /\ environ = LaunchEnviron
    /\ industry \in Industries
    /\ company_size \in CompanySizes
    /\ selected_template = ""
    /\ selected_techniques = <<>>
    /\ messages = Unbound
    /\ run_id = 0
    /\ custom_scenario_generated = FALSE
    /\ custom_scenario_text = 0
    /\ last_scenario = FALSE
    /\ last_scenario_text = 0
    /\ pc = "idle"
    /\ caller = "page"
    /\ adapter = ""
    /\ run_tree = 0
    /\ formatted_messages = <<>>
    /\ llm = FALSE
    /\ raised = NoException
    /\ response = "None"
    /\ display = <<>>
    /\ nsub = 0
    /\ adapter_calls = 0
    /\ backend_calls = 0
    /\ llm_args = NoArgs
    /\ buttons = FALSE
    /\ feedback = NoFeedback
    /\ last_run = 0
    /\ call_site = NoCallSite

\* ------------------------------------------------------------------ actions
\* The rest of the script after the dispatch block (still inside its try):
\* the no-key note, the feedback placeholder, the rule and the feedback
\* buttons with the handling of a click on one of them.
EndOfScript(shown, generated, click, created) ==
    LET drawn == ButtonsDrawn(generated, client)
        fb == IF drawn THEN FeedbackClick(click, run_id, created, feedback)
              ELSE FeedbackClick("none", run_id, created, feedback)
    IN  /\ display' = (IF langchain_secret THEN shown ELSE Append(shown, NoKeyInfo))
                        \o fb.placeholder \o <<Markdown(<<"---">>)>>
                        \o (IF drawn THEN <<RateInfo>> ELSE <<>>)
        /\ buttons' = drawn
        /\ feedback' = fb.feedback
        /\ pc' = "idle"

\* The end of a script run in which no feedback button was clicked.
FinishScript(shown, generated) == EndOfScript(shown, generated, "none", TRUE)

\* The outer except: the rest of the try block is skipped, the feedback
\* buttons included.
AbortScript(shown, etext) ==
    /\ display' = Append(shown, OuterError(etext))
    /\ buttons' = FALSE
    /\ UNCHANGED feedback
    /\ pc' = "idle"

\* The wrapper is called: the traced variant's run exists from here on.
EnterAdapter(tag, shown, who) ==
    /\ pc' = "adapter"
    /\ caller' = who
    /\ adapter' = tag
    /\ run_tree' = RunTreeAtEntry(client, nsub + 1)
    /\ adapter_calls' = 1        \* the first call of this script run
    /\ display' = shown
    /\ last_run' = RunTreeAtEntry(client, nsub + 1)
    /\ UNCHANGED <<buttons, feedback>>

\* A script run in which Generate Scenario was clicked, from the top of the
\* script to the adapter call or to the end of the script.
Submit(tmpl, techs) ==
    /\ pc = "idle"
    /\ nsub < MaxSubmissions
    /\ nsub' = nsub + 1
    /\ environ' = CopyToEnviron(session_state, environ)
    /\ selected_template' = tmpl
    /\ selected_techniques' = techs
    /\ messages' = Render(industry, company_size, tmpl, techs)
    /\ backend_calls' = 0
    /\ response' = "None"
    /\ formatted_messages' = <<>>
    /\ llm' = FALSE
    /\ raised' = NoException
    /\ LET d == Dispatch(model_provider, session_state, environ', industry, company_size)
           tag == AdapterOf(model_provider)
       IN  IF d.go /\ ~(CallSiteNeedsMessages(tag) /\ messages' = Unbound)
           THEN /\ EnterAdapter(tag, d.shown, "page")
                /\ call_site' = CallSite(tag, session_state, environ')
           ELSE /\ call_site' = NoCallSite
                /\ IF d.raised # <<>> THEN AbortScript(d.shown, d.raised)
                   ELSE IF d.go THEN AbortScript(d.shown, NameErrorText)
                   ELSE FinishScript(d.shown, custom_scenario_generated)
                /\ caller' = "page"
                /\ adapter' = ""
                /\ run_tree' = 0
                /\ adapter_calls' = 0
                /\ UNCHANGED last_run
    /\ client' = ClientAtStartup(langsmith_api_key, langchain_secret)
    /\ llm_args' = NoArgs
    /\ UNCHANGED <<langsmith_api_key, langchain_secret, settings, scenario, run_id>>

\* The template and the techniques are this page's widgets: the user may
\* change them before any click.
SubmitAny ==
    \E tmpl \in TemplateLabels : \E techs \in Selections(PageTechniques, MaxTechniques) :
        Submit(tmpl, techs)

\* An exception e leaves the try body.  Caught: st.error(...), run_id (traced
\* variant), return None.  Not caught: it leaves the wrapper and reaches the
\* caller's handler.
AdapterFails(e) ==
    /\ raised' = e
    /\ response' = "None"
    /\ IF AdapterCatches(e.class)
       THEN /\ display' = Append(display, AdapterError(e.text))
            /\ run_id' = RunIdOnFailure(client, run_tree, run_id)
            /\ pc' = AfterExcept
            /\ UNCHANGED <<buttons, feedback>>
       ELSE /\ AbortScript(display, e.text)
            /\ UNCHANGED run_id

\* The adapter body up to the backend call: the client is constructed, the
\* Azure adapter converts the messages, the Ollama adapter reads the script's
\* `messages` as the call's argument.
BuildClient ==
    /\ pc = "adapter"
    /\ \E built \in BOOLEAN :
         IF ~built
         THEN /\ \E e \in ClientErrors : AdapterFails(e)
              /\ UNCHANGED <<formatted_messages, llm>>
         ELSE /\ llm' = TRUE
              /\ IF adapter = "azure" /\ ConversionRaises(messages)
                 THEN /\ AdapterFails(UnsupportedError)
                      /\ UNCHANGED formatted_messages
                 ELSE IF adapter = "ollama" /\ messages = Unbound
                 THEN /\ AdapterFails(MessagesNameError)
                      /\ UNCHANGED formatted_messages
                 ELSE /\ pc' = "calling"
                      /\ formatted_messages' =
                            (IF adapter = "azure" THEN FormatMessages(messages) ELSE <<>>)
                      /\ UNCHANGED <<display, run_id, response, raised, buttons,
                                     feedback>>
    /\ llm_args' = AdapterReads(adapter, session_state, environ)
    /\ UNCHANGED <<config, inputs, scenario, caller, adapter, run_tree, nsub,
                   adapter_calls, backend_calls, last_run,
                   call_site>>

\* The backend call and the adapter's return.
BackendCall ==
    /\ pc = "calling"
    /\ backend_calls' = backend_calls + 1
    /\ \E out \in BackendOutcomes(adapter) :
         IF out = "error"
         THEN \E e \in BackendErrors : AdapterFails(e)
         ELSE /\ response' = out
              /\ run_id' = RunIdOnSuccess(client, run_tree, run_id)
              /\ pc' = "returned"
              /\ UNCHANGED <<display, raised, buttons, feedback>>
    /\ UNCHANGED <<config, inputs, scenario, caller, adapter, run_tree,
                   formatted_messages, llm, nsub, adapter_calls, llm_args, last_run,
                   call_site>>

Rule == Markdown(<<"---">>)

\* Whether the branch of this adapter shows the stored scenario again when
\* the adapter returned None (the OpenAI branch's else belongs to the button).
RedisplaysOnFailure(tag) == tag # "openai"

\* The dispatch block from the adapter's return to the end of the script.
HandleResult ==
    /\ pc = "returned"
    /\ caller = "page"
    /\ IF response # "None"
       THEN /\ custom_scenario_generated' = TRUE
            /\ IF response = "malformed"
               THEN /\ AbortScript(Append(display, Rule), <<"list index out of range">>)
                    /\ UNCHANGED <<custom_scenario_text, last_scenario, last_scenario_text>>
               ELSE /\ custom_scenario_text' = nsub
                    /\ last_scenario' = TRUE
                    /\ last_scenario_text' = nsub
                    /\ FinishScript(display \o <<Rule, Markdown(ScenarioText(nsub))>>, TRUE)
       ELSE /\ IF /\ RedisplaysOnFailure(adapter)
                  /\ custom_scenario_text # 0
                  /\ custom_scenario_generated
               THEN FinishScript(display \o
                        <<Rule, Rule, Markdown(ScenarioText(custom_scenario_text))>>,
                        custom_scenario_generated)
               ELSE FinishScript(Append(display, Rule), custom_scenario_generated)
            /\ UNCHANGED scenario
    /\ UNCHANGED <<config, inputs, run_id, caller, adapter, run_tree,
                   formatted_messages, llm, raised, response, nsub, adapter_calls,
                   backend_calls, llm_args, last_run,
                   call_site>>

\* ------------------------------------------- the prompt construction alone
\* The state at the top of a script run, before the prompt construction block:
\* pc = "top", the selection made, `messages` not bound yet.
InitRender ==
    /\ langsmith_api_key = FALSE
    /\ langchain_secret = FALSE
    /\ client = ClientAtStartup(langsmith_api_key, langchain_secret)
    /\ model_provider = "OpenAI API"
    /\ session_state = [k \in SessionKeys |-> Absent]
    /\ environ = LaunchEnviron
    /\ industry \in Industries
    /\ company_size \in CompanySizes
    /\ selected_template \in TemplateLabels
    /\ selected_techniques \in Selections(TechniqueNames, MaxTechniques)
    /\ messages = Unbound
    /\ run_id = 0
    /\ custom_scenario_generated = FALSE
    /\ custom_scenario_text = 0
    /\ last_scenario = FALSE
    /\ last_scenario_text = 0
    /\ pc = "top"
    /\ caller = "page"
    /\ adapter = ""
    /\ run_tree = 0
    /\ formatted_messages = <<>>
    /\ llm = FALSE
    /\ raised = NoException
    /\ response = "None"
    /\ display = <<>>
    /\ nsub = 0
    /\ adapter_calls = 0
    /\ backend_calls = 0
    /\ llm_args = NoArgs
    /\ buttons = FALSE
    /\ feedback = NoFeedback
    /\ last_run = 0
    /\ call_site = NoCallSite

\* The try block of the prompt construction.
PromptConstruction ==
    /\ pc = "top"
    /\ pc' = "idle"
    /\ messages' = Render(industry, company_size, selected_template, selected_techniques)
    /\ UNCHANGED <<config, settings, environ, selected_template, selected_techniques,
                   scenario, run_id, caller, adapter, run_tree, formatted_messages,
                   llm, raised, response, display, nsub, adapter_calls, backend_calls,
                   llm_args, buttons, feedback, last_run,
                   call_site>>

SpecRender == InitRender /\ [][PromptConstruction]_vars

\* --------------------------------- the Azure adapter called with any messages
MessageContents == {<<"c1">>}
MessageRoles == {"human", "system"}

\* Objects with a role and a content, with a type and a content, with both
\* (a ChatMessage), and objects the conversion loop does not recognise.
MessageObjects ==
    {[role |-> r, content |-> c] : r \in MessageRoles, c \in MessageContents}
    \cup {[type |-> t, content |-> c] : t \in MessageRoles, c \in MessageContents}
    \cup {[role |-> r, type |-> "chat", content |-> c] :
                r \in MessageRoles, c \in MessageContents}
    \cup {[content |-> c] : c \in MessageContents}
    \cup {[role |-> r] : r \in MessageRoles}

MessageLists == UNION {[1..n -> MessageObjects] : n \in 1..MaxMessages}

InitAzure ==
    /\ langsmith_api_key = FALSE
    /\ langchain_secret \in BOOLEAN
    /\ client = ClientAtStartup(langsmith_api_key, langchain_secret)
    /\ model_provider = "Azure OpenAI Service"
    /\ session_state = [k \in SessionKeys |-> Absent]
    /\ environ = LaunchEnviron
    /\ industry = "Finance"
    /\ company_size = "Large"
    /\ selected_template = ""
    /\ selected_techniques = <<>>
    /\ messages \in MessageLists
    /\ run_id = 0
    /\ custom_scenario_generated = FALSE
    /\ custom_scenario_text = 0
    /\ last_scenario = FALSE
    /\ last_scenario_text = 0
    /\ pc = "idle"
    /\ caller = "direct"
    /\ adapter = ""
    /\ run_tree = 0
    /\ formatted_messages = <<>>
    /\ llm = FALSE
    /\ raised = NoException
    /\ response = "None"
    /\ display = <<>>
    /\ nsub = 0
    /\ adapter_calls = 0
    /\ backend_calls = 0
    /\ llm_args = NoArgs
    /\ buttons = FALSE
    /\ feedback = NoFeedback
    /\ last_run = 0
    /\ call_site = NoCallSite

\* generate_scenario_azure_wrapper(messages) called by a caller of its own.
InvokeAzureDirect ==
    /\ pc = "idle"
    /\ nsub < MaxSubmissions
    /\ nsub' = nsub + 1
    /\ EnterAdapter("azure", <<>>, "direct")
    /\ backend_calls' = 0
    /\ response' = "None"
    /\ formatted_messages' = <<>>
    /\ llm' = FALSE
    /\ raised' = NoException
    /\ llm_args' = NoArgs
    /\ call_site' = NoCallSite
    /\ UNCHANGED <<config, inputs, scenario, run_id>>

\* The wrapper's return value is handed to that caller.
DirectReturn ==
    /\ pc = "returned"
    /\ caller = "direct"
    /\ pc' = "idle"
    /\ UNCHANGED <<config, inputs, scenario, run_id, caller, adapter, run_tree,
                   formatted_messages, llm, raised, response, display, nsub,
                   adapter_calls, backend_calls, llm_args, buttons, feedback,
                   last_run,
                   call_site>>

NextAzure == InvokeAzureDirect \/ BuildClient \/ BackendCall \/ DirectReturn

SpecAzure == InitAzure /\ [][NextAzure]_vars

\* --------------------------------------------- script runs without a submission
\* What the dispatch block shows when Generate Scenario was not clicked: only
\* the last branch has an else on its button, which shows the stored scenario.
NotClicked(p, generated, text) ==
    IF AdapterOf(p) = "openai" /\ text # 0 /\ generated
    THEN <<Markdown(<<"---">>), Markdown(ScenarioText(text))>>
    ELSE <<>>

\* A script run started by any interaction other than Generate Scenario: a
\* click on a feedback button the last run drew, or none.
Rerun(click, created) ==
    /\ pc = "idle"
    /\ click # "none" => buttons
    /\ client' = ClientAtStartup(langsmith_api_key, langchain_secret)
    /\ environ' = CopyToEnviron(session_state, environ)
    /\ messages' = Render(industry, company_size, selected_template, selected_techniques)
    /\ EndOfScript(NotClicked(model_provider, custom_scenario_generated,
                              custom_scenario_text),
                   custom_scenario_generated, click, created)
    /\ caller' = "page"
    /\ adapter' = ""
    /\ run_tree' = 0
    /\ adapter_calls' = 0
    /\ backend_calls' = 0
    /\ response' = "None"
    /\ formatted_messages' = <<>>
    /\ llm' = FALSE
    /\ raised' = NoException
    /\ llm_args' = NoArgs
    /\ call_site' = NoCallSite
    /\ UNCHANGED <<langsmith_api_key, langchain_secret, settings, selected_template,
                   selected_techniques, scenario, run_id, nsub, last_run>>

RerunAny == \E click \in Clicks : \E created \in BOOLEAN : Rerun(click, created)

\* A session whose provider is set up completely: every key of p holds v.
FullConfig(p, v) == [k \in SessionKeys |-> IF k \in KeysOf(p) THEN v ELSE Absent]

\* The page in a process whose tracing credentials are any of the four
\* combinations, opened by a session that has set up its provider.
InitFeedback ==
    /\ langsmith_api_key \in BOOLEAN
    /\ langchain_secret \in BOOLEAN
    /\ client = ClientAtStartup(langsmith_api_key, langchain_secret)
    /\ model_provider \in Providers
    /\ session_state = FullConfig(model_provider, "v1")
    /\ environ = LaunchEnviron
    /\ industry = "Finance"
    /\ company_size = "Large"
    /\ selected_template = ""
    /\ selected_techniques = <<>>
    /\ messages = Unbound
    /\ run_id = 0
    /\ custom_scenario_generated = FALSE
    /\ custom_scenario_text = 0
    /\ last_scenario = FALSE
    /\ last_scenario_text = 0
    /\ pc = "idle"
    /\ caller = "page"
    /\ adapter = ""
    /\ run_tree = 0
    /\ formatted_messages = <<>>
    /\ llm = FALSE
    /\ raised = NoException
    /\ response = "None"
    /\ display = <<>>
    /\ nsub = 0
    /\ adapter_calls = 0
    /\ backend_calls = 0
    /\ llm_args = NoArgs
    /\ buttons = FALSE
    /\ feedback = NoFeedback
    /\ last_run = 0
    /\ call_site = NoCallSite

NextFeedback == SubmitAny \/ BuildClient \/ BackendCall \/ HandleResult \/ RerunAny

SpecFeedback == InitFeedback /\ [][NextFeedback]_vars

\* ------------------------------------------------ two sessions in one process
\* The value the second session has configured for each key of its provider.
OtherValue == "v2"

\* The top of a script run of a second session of the same process (it has
\* set up the same provider with values of its own): its session values are
\* copied to os.environ, which the two sessions share.
OtherSessionScript ==
    /\ environ' = CopyToEnviron(FullConfig(model_provider, OtherValue), environ)
    /\ UNCHANGED <<config, settings, selected_template, selected_techniques, messages,
                   scenario, run_id, pc, caller, adapter, run_tree, formatted_messages,
                   llm, raised, response, display, nsub, adapter_calls, backend_calls,
                   llm_args, buttons, feedback, last_run,
                   call_site>>

InitShared ==
    /\ langsmith_api_key = FALSE
    /\ langchain_secret \in BOOLEAN
    /\ client = ClientAtStartup(langsmith_api_key, langchain_secret)
    /\ model_provider \in Providers
    /\ session_state = FullConfig(model_provider, "v1")
    /\ environ = LaunchEnviron
    /\ industry \in Industries
    /\ company_size \in CompanySizes
    /\ selected_template = ""
    /\ selected_techniques = <<>>
    /\ messages = Unbound
    /\ run_id = 0
    /\ custom_scenario_generated = FALSE
    /\ custom_scenario_text = 0
    /\ last_scenario = FALSE
    /\ last_scenario_text = 0
    /\ pc = "idle"
    /\ caller = "page"
    /\ adapter = ""
    /\ run_tree = 0
    /\ formatted_messages = <<>>
    /\ llm = FALSE
    /\ raised = NoException
    /\ response = "None"
    /\ display = <<>>
    /\ nsub = 0
    /\ adapter_calls = 0
    /\ backend_calls = 0
    /\ llm_args = NoArgs
    /\ buttons = FALSE
    /\ feedback = NoFeedback
    /\ last_run = 0
    /\ call_site = NoCallSite

NextShared ==
    SubmitAny \/ BuildClient \/ BackendCall \/ HandleResult \/ OtherSessionScript

SpecShared == InitShared /\ [][NextShared]_vars

Next == SubmitAny \/ BuildClient \/ BackendCall \/ HandleResult

Spec == Init /\ [][Next]_vars

\* ------------------------------------------------------------------- claims
\* The required fields of the configured provider that are empty or missing.
MissingKeys ==
    {k \in KeysOf(model_provider) : session_state[k] = "" \/ session_state[k] = Absent}

\* The messages of the page that name a field.
FieldInfo(k) ==
    CASE k = "AZURE_OPENAI_API_KEY" -> {AzureKeyInfo}
      [] k = "AZURE_OPENAI_ENDPOINT" -> {AzureEndpointInfo}
      [] k = "azure_deployment" -> {AzureDeploymentInfo}
      [] k = "GOOGLE_API_KEY" -> {GoogleKeyInfo}
      [] k = "MISTRAL_API_KEY" -> {MistralKeyInfo}
      [] k = "openai_api_key" -> {OpenAIKeyInfo}
      [] k \in {"google_model", "mistral_model", "ollama_model", "model_name"} -> {ModelInfo}
      [] OTHER -> {}

IdentifiesField(msg, k) ==
    \/ msg \in FieldInfo(k)
    \/ k \in CopiedKeys /\ msg = OuterError(KeyErrorText(EnvOf[k]))

Shown(msg) == \E i \in 1..Len(display) : display[i] = msg

ErrorShownWith(text) ==
    \E i \in 1..Len(display) :
        display[i].kind = "error" /\ Contains(display[i].text, text)

\* C1: for each of the five providers, a submission with a required field
\* empty calls neither the adapter nor the backend and ends with a message
\* that identifies a missing field.
C1_MissingFieldRejected ==
    (nsub > 0 /\ model_provider \in Providers /\ MissingKeys # {})
        => /\ adapter_calls = 0
           /\ backend_calls = 0
           /\ pc = "idle"
           /\ \E k \in MissingKeys : \E i \in 1..Len(display) :
                    IdentifiesField(display[i], k)

\* C2: a submission with an empty technique selection enters no adapter and
\* opens no run, whatever the provider.
C2_EmptySelectionRejected ==
    (nsub > 0 /\ selected_techniques = <<>>)
        => /\ adapter_calls = 0
           /\ adapter = ""
           /\ run_tree = 0
           /\ pc = "idle"

\* C3: with the tracing client set, the run identifier of an invocation
\* exists from the adapter's entry on (so before the backend call), and after
\* the adapter has returned, with a response or with None, the session's
\* run_id is the non-empty identifier of that invocation.
C3_TracedInvocationLeavesRunId ==
    client = "Client"
        => /\ pc \in {"adapter", "calling"} => (run_tree # 0 /\ run_tree = nsub)
           /\ (adapter_calls = 1 /\ pc \in {"returned", "idle"})
                => (run_id # 0 /\ run_id = nsub /\ run_id = run_tree)

C3_Witness ==
    /\ client = "Client"
    /\ pc = "returned"
    /\ backend_calls = 1
    /\ raised.class = "APIConnectionError"
    /\ response = "None"
    /\ run_id = nsub

\* C4: without the tracing client no invocation writes run_id: it stays
\* absent after any sequence of successful and failed invocations.
C4_UntracedNeverWritesRunId ==
    client = "None" => (run_id = 0 /\ run_tree = 0)

C4_Witness ==
    /\ client = "None"
    /\ nsub = 2
    /\ custom_scenario_text = 1
    /\ pc = "returned"
    /\ backend_calls = 1
    /\ raised # NoException
    /\ run_id = 0

\* C5: an exception raised while the adapter constructs its client or calls
\* the backend is handled inside the adapter: the adapter returns None to the
\* dispatch block, an error message containing the exception's text is shown,
\* and the dispatch block's own handler never sees the exception.
C5_AdapterCatchesExceptions ==
    raised # NoException
        => /\ pc \in {"returned", "idle"}
           /\ response = "None"
           /\ Shown(AdapterError(raised.text))
           /\ ErrorShownWith(raised.text)
           /\ ~Shown(OuterError(raised.text))
           /\ pc = "idle" => Shown(Rule)

C5_Witness ==
    /\ raised.class = "AuthenticationError"
    /\ pc = "returned"
    /\ response = "None"
    /\ model_provider = "Google AI API"

\* The provider tag each known provider identity stands for.
ProviderTag ==
    [p \in Providers |->
        CASE p = "OpenAI API" -> "openai"
          [] p = "Azure OpenAI Service" -> "azure"
          [] p = "Google AI API" -> "google"
          [] p = "Mistral API" -> "mistral"
          [] p = "Ollama" -> "ollama"]

\* C6: the adapter invoked is the one tagged for the configured provider, and
\* a provider identity that is none of the known ones invokes no adapter.
C6_AdapterMatchesProvider ==
    /\ adapter_calls > 0
         => (model_provider \in Providers /\ adapter = ProviderTag[model_provider])
    /\ (nsub > 0 /\ model_provider \notin Providers) => (adapter_calls = 0 /\ pc = "idle")

\* The lines of the rendered user message.
UserLines == Lines(messages[2].content)

HeaderLine(lines) == CHOOSE i \in 1..Len(lines) : lines[i] = <<TechniquesHeader>>

IsTechniqueLine(line) == Len(line) = 1 /\ line[1] \in TechniqueNames

\* C7: for a non-empty selection the user message holds every selected name
\* on a line of its own, in the order of the selection, and no other line
\* holds a technique name: nothing reordered, dropped or added.
C7_TechniquesInOrder ==
    (pc = "idle" /\ selected_techniques # <<>>)
        => /\ messages # Unbound
           /\ LET lines == UserLines
                  n == Len(selected_techniques)
                  h == HeaderLine(lines)
              IN  /\ \E i \in 1..Len(lines) : lines[i] = <<TechniquesHeader>>
                  /\ h + n + 1 <= Len(lines)
                  /\ \A i \in 1..n : lines[h + i] = <<selected_techniques[i]>>
                  /\ lines[h + n + 1] = <<>>
                  /\ SelectSeq(lines, IsTechniqueLine)
                        = [i \in 1..n |-> <<selected_techniques[i]>>]

C7_Witness ==
    /\ pc = "idle"
    /\ messages # Unbound
    /\ selected_template = ""
    /\ selected_techniques = <<"Data Staged (T1074)", "Input Capture (T1056)">>
    /\ UserLines[HeaderLine(UserLines) + 1] = <<"Data Staged (T1074)">>

TemplateLine(label) == <<"This is a '", label, "' scenario.">>

\* C8: the user message holds a line "This is a '<label>' scenario." exactly
\* when a template label is set; it is the line of the set label and stands
\* before the technique lines; without a label that line is empty.
C8_TemplateLine ==
    (pc = "idle" /\ messages # Unbound)
        => LET lines == UserLines
               h == HeaderLine(lines)
           IN  /\ (\E i \in 1..Len(lines) : \E label \in TemplateLabels :
                        lines[i] = TemplateLine(label))
                     <=> selected_template # ""
               /\ selected_template # ""
                     => /\ lines[h - 1] = TemplateLine(selected_template)
                        /\ \A i \in 1..Len(lines) :
                              (\E label \in TemplateLabels : lines[i] = TemplateLine(label))
                                 => i = h - 1
               /\ selected_template = "" => lines[h - 1] = <<>>

C8_Witness ==
    /\ pc = "idle"
    /\ industry = "Finance"
    /\ company_size = "Large"
    /\ selected_template = "Phishing Attack"
    /\ selected_techniques = <<"User Execution (T1204)", "Input Capture (T1056)">>
    /\ \E i \in 1..Len(UserLines) : UserLines[i] = TemplateLine("Phishing Attack")

HasUnsupported == \E i \in 1..Len(messages) : ~Supported(messages[i])

RunIdPopulated == client = "Client" => (run_id # 0 /\ run_id = run_tree)

\* C9 as stated: an Azure invocation with an unrecognised element in its
\* message list ends in a failure whose message references "Unsupported
\* message format", with no backend call made and run_id populated when the
\* tracing client is set.
C9_UnsupportedAlwaysReported ==
    (adapter = "azure" /\ pc = "returned" /\ HasUnsupported)
        => /\ response = "None"
           /\ backend_calls = 0
           /\ ErrorShownWith(<<"Unsupported message format: ">>)
           /\ RunIdPopulated

\* C9 as amended: such an invocation ends in a failure with no backend call
\* made and run_id populated when the tracing client is set; the message
\* references "Unsupported message format" when the client was constructed,
\* and carries the constructor's error text when it was not.
C9_UnsupportedFailsBeforeBackend ==
    (adapter = "azure" /\ pc = "returned" /\ HasUnsupported)
        => /\ response = "None"
           /\ backend_calls = 0
           /\ RunIdPopulated
           /\ llm => ErrorShownWith(<<"Unsupported message format: ">>)
           /\ ~llm => (\E e \in ClientErrors : ErrorShownWith(e.text))
                       /\ ~ErrorShownWith(<<"Unsupported message format: ">>)

C9_Witness ==
    /\ adapter = "azure"
    /\ pc = "returned"
    /\ Len(messages) = 2
    /\ Supported(messages[1])
    /\ ~Supported(messages[2])
    /\ llm
    /\ client = "Client"
    /\ run_id = nsub
    /\ ErrorShownWith(<<"Unsupported message format: ">>)

\* Every precondition of a submission holds: the provider's fields, the
\* industry, the company size and the technique selection are non-empty.
AllPreconditionsPass ==
    /\ MissingKeys = {}
    /\ industry # ""
    /\ company_size # ""
    /\ selected_techniques # <<>>

AtMostOneCall ==
    /\ adapter_calls <= 1
    /\ backend_calls <= 1
    /\ raised # NoException => pc \in {"returned", "idle"}

\* C10: a submission makes at most one adapter invocation and at most one
\* backend call, and calls nothing again after a failure; when all
\* preconditions pass it makes exactly one adapter invocation, which makes
\* exactly one backend call once its client is constructed (none if the
\* constructor raised).
C10_OneInvocationPerSubmission ==
    /\ AtMostOneCall
    /\ (nsub > 0 /\ AllPreconditionsPass) => adapter_calls = 1
    /\ (nsub > 0 /\ AllPreconditionsPass /\ pc \in {"returned", "idle"})
            => backend_calls = (IF llm THEN 1 ELSE 0)

C10_Witness ==
    /\ pc = "idle"
    /\ nsub = 2
    /\ AllPreconditionsPass
    /\ adapter_calls = 1
    /\ backend_calls = 1
    /\ raised.class = "APIConnectionError"
    /\ custom_scenario_text = 1

\* C11: with a second session of the same process running its script at any
\* moment, the values an adapter invocation builds its client and call with
\* are the ones its own session has configured.
C11_InvocationUsesOwnConfig ==
    (adapter # "" /\ llm_args # NoArgs)
        => \A k \in DOMAIN llm_args : llm_args[k] = session_state[k]

\* C12: in every state of a run the tracing hook is Enabled exactly when
\* tracing credentials were available at startup, from the LANGSMITH_API_KEY
\* environment value or from the LANGCHAIN_API_KEY secret.
C12_HookDecidedAtStartup ==
    client = "Client" <=> (langsmith_api_key \/ langchain_secret)

\* The role a recognised message carries: its role, or its type when it has
\* no role.
SourceRole(m) == IF "role" \in DOMAIN m THEN m.role ELSE m.type

\* C13: the Azure adapter hands the backend a list of the same length and
\* order as its recognisable messages, each content unchanged, each role
\* 'human' replaced by 'user' and every other role passed through; no
\* translated message carries the role 'human'.
C13_AzureTranslation ==
    (adapter = "azure" /\ pc = "calling")
        => /\ Len(formatted_messages) = Len(messages)
           /\ \A i \in 1..Len(messages) :
                LET m == messages[i]
                    f == formatted_messages[i]
                IN  /\ DOMAIN f = {"role", "content"}
                    /\ f.content = m.content
                    /\ SourceRole(m) = "human" => f.role = "user"
                    /\ SourceRole(m) # "human" => f.role = SourceRole(m)
                    /\ f.role # "human"

C13_Witness ==
    /\ adapter = "azure"
    /\ pc = "calling"
    /\ Len(messages) = 2
    /\ messages[1] = [type |-> "human", content |-> <<"c1">>]
    /\ messages[2] = [role |-> "system", content |-> <<"c1">>]
    /\ formatted_messages[1] = [role |-> "user", content |-> <<"c1">>]
    /\ formatted_messages[2] = [role |-> "system", content |-> <<"c1">>]

\* C15: with the tracing client set, once a submission that invoked an
\* adapter has ended, whether the invocation failed or not, the feedback
\* buttons are there to be clicked and run_id is the run of that invocation.
C15_FeedbackAfterAnyInvocation ==
    (client = "Client" /\ pc = "idle" /\ adapter_calls = 1)
        => (buttons /\ run_id # 0 /\ run_id = last_run)

\* C16: for each of the five providers, a submission whose invocation failed
\* while the session holds the text of an earlier success shows the failure
\* message and shows that earlier text again.
C16_FailureRedisplaysEarlier ==
    (/\ pc = "idle"
     /\ model_provider \in Providers
     /\ adapter_calls = 1
     /\ raised # NoException
     /\ custom_scenario_text # 0)
        => /\ Shown(AdapterError(raised.text))
           /\ Shown(Markdown(ScenarioText(custom_scenario_text)))

\* C17 as stated: whenever feedback has been submitted, the run it is
\* recorded against is the run that produced the stored custom_scenario_text.
C17_FeedbackRatesStoredText ==
    Shown(FeedbackSuccess) => feedback.run_id = custom_scenario_text

\* C17 as amended: whenever feedback has been submitted, the run it is
\* recorded against is the run of the session's latest adapter invocation
\* (the session's run_id); the stored custom_scenario_text is the text of that
\* run or, when that invocation gave no text, of an earlier run or absent.
C17_FeedbackRatesLatestInvocation ==
    Shown(FeedbackSuccess)
        => /\ feedback.run_id # 0
           /\ feedback.run_id = last_run
           /\ feedback.run_id = run_id
           /\ custom_scenario_text \in 0..feedback.run_id

C17_Witness ==
    /\ Shown(FeedbackSuccess)
    /\ nsub = 2
    /\ feedback.run_id = 2
    /\ custom_scenario_text = 1
    /\ model_provider = "Google AI API"

\* C18: in every reachable state, custom_scenario_generated being True
\* implies that custom_scenario_text is present.
C18_GeneratedImpliesText ==
    custom_scenario_generated => custom_scenario_text # 0

\* C19: custom_scenario_generated, custom_scenario_text, last_scenario and
\* last_scenario_text change only in the handling of a successful invocation;
\* a submission that ends in failure leaves the four unchanged.
C19_FailureLeavesScenario ==
    [][scenario' # scenario => (pc = "returned" /\ response = "ok")]_vars

\* C20: whatever the provider, an adapter is invoked only in a submission
\* whose industry and company size are both non-empty.
C20_NoAdapterWithoutIndustryAndSize ==
    (adapter_calls > 0 \/ backend_calls > 0 \/ adapter # "" \/ pc # "idle")
        => (industry # "" /\ company_size # "")

C20_Witness ==
    /\ nsub > 0
    /\ pc = "idle"
    /\ industry = "Finance"
    /\ company_size = ""
    /\ MissingKeys = {}
    /\ selected_techniques # <<>>
    /\ adapter_calls = 0
    /\ adapter = ""
    /\ Shown(SizeInfo)

\* The place the value used for field k came from: a parameter comes from
\* where the dispatch block took it.
UsedSource(k) ==
    IF ReadFrom(adapter)[k] = "parameter" THEN call_site.params[k].source
    ELSE ReadFrom(adapter)[k]

\* C21: in a session on its own, once an adapter called by the dispatch
\* block has read its values, every field the validation checked is used
\* with the value that was validated, read from the place the validation
\* read it; a parameter taken from another place than the validated value
\* is not what the adapter uses.
C21_AdapterUsesValidatedValues ==
    (caller = "page" /\ adapter # "" /\ llm_args # NoArgs)
        => /\ \A k \in DOMAIN call_site.validated :
                /\ k \in DOMAIN llm_args
                /\ llm_args[k] = call_site.validated[k].value
                /\ UsedSource(k) = call_site.validated[k].source
           /\ \A k \in DOMAIN call_site.params :
                (k \in DOMAIN call_site.validated
                    /\ call_site.params[k].source # call_site.validated[k].source)
                => ReadFrom(adapter)[k] # "parameter"

C21_Witness ==
    /\ caller = "page"
    /\ adapter = "google"
    /\ pc = "calling"
    /\ call_site.validated["GOOGLE_API_KEY"] = From("environ", "v1")
    /\ call_site.params["GOOGLE_API_KEY"] = From("session_state", Absent)
    /\ llm_args["GOOGLE_API_KEY"] = "v1"
    /\ llm_args["google_model"] = "v1"

====
